---------------------------- MODULE Spec2Model ----------------------------
(***************************************************************************)
(* Request metadata of the Tigris server (server/request/request.go):      *)
(* claim extraction from the Authorization header, namespace resolution    *)
(* through the tenant directory, read/write method classification and the  *)
(* per-request Metadata container with its setters.                        *)
(*                                                                         *)
(* A Go string is modelled as a sequence of symbols.  A symbol is either a *)
(* separator character (" ", "." or "/") or a run of other characters.     *)
(***************************************************************************)
EXTENDS Integers, Sequences, FiniteSets, TLC

VARIABLES
    isolation,       \* config.DefaultConfig.Auth.EnableNamespaceIsolation
    authEnabled,     \* config.DefaultConfig.Auth.Enabled
    tenantGetter,    \* package variable tenantGetter: "nil" until Init
    pc,              \* "idle" | "ready" | "panicked"
    ctor,            \* constructor that returned the Metadata, "none" before
    op,              \* the operation invoked last
    md,              \* the Metadata struct of the call
    req,             \* request payload given to GetGrpcEndPointMetadataFromFullMethod
    argNs,           \* argument of the most recent SetNamespace call
    outcome,         \* what tenantGetter.GetTenant did in the most recent SetNamespace
    getTenantCalls,  \* number of tenantGetter.GetTenant invocations so far
    nset,            \* number of setter calls applied to the Metadata
    text,            \* input string of the claim extractor
    fn,              \* extractor function applied to text, "none" before
    out,             \* quadruple returned by the extractor
    name,            \* method name given to the classifier
    verdict          \* [read, write] returned by isRead / isWrite

lifecycleVars == <<isolation, authEnabled, tenantGetter, pc, ctor, op, md, req,
                   argNs, outcome, getTenantCalls, nset>>
extractVars == <<text, fn, out>>
classifyVars == <<name, verdict>>
vars == <<lifecycleVars, extractVars, classifyVars>>

---------------------------------------------------------------------------
(* Bounds *)

MaxHeaderLen == 4      \* longest header built freely from " ", "." and text
MaxNameLen == 3        \* longest method name built freely from its symbols
MaxSetterCalls == 2    \* setter calls applied to one Metadata

---------------------------------------------------------------------------
(* Constants of the program *)

NamespaceCode == "nc"
Role == "r"
UserEmail == "ue"
Subject == "sub"

UnknownValue == "unknown"
DefaultNamespaceName == "default_namespace"

TigrisService == "tigrisdata.v1.Tigris"
ObservabilityMethodPrefix == <<"/", "tigrisdata.observability.v1.Observability", "/">>
ManagementMethodPrefix == <<"/", "tigrisdata.management.v1.Management", "/">>
ReadMethodName == <<"/", TigrisService, "/", "Read">>
SearchMethodName == <<"/", TigrisService, "/", "Search">>
ListCollectionsMethodName == <<"/", TigrisService, "/", "ListCollections">>
ListProjectsMethodName == <<"/", TigrisService, "/", "ListProjects">>
DescribeCollectionMethodName == <<"/", TigrisService, "/", "DescribeCollection">>
DescribeDatabaseMethodName == <<"/", TigrisService, "/", "DescribeDatabase">>

---------------------------------------------------------------------------
(* strings *)

SeqsUpTo(S, n) == UNION {[1..k -> S] : k \in 0..n}

\* index of the first occurrence of the symbol sep in s, 0 if there is none
Index(s, sep) ==
    IF \E i \in 1..Len(s) : s[i] = sep
    THEN CHOOSE i \in 1..Len(s) : s[i] = sep /\ \A j \in 1..(i - 1) : s[j] # sep
    ELSE 0

\* strings.SplitN(s, sep, n) for n > 0: at most n parts, the last one unsplit
RECURSIVE SplitN(_, _, _)
SplitN(s, sep, n) ==
    IF n <= 1 \/ Index(s, sep) = 0
    THEN <<s>>
    ELSE LET i == Index(s, sep)
         IN  <<SubSeq(s, 1, i - 1)>> \o SplitN(SubSeq(s, i + 1, Len(s)), sep, n - 1)

\* strings.Split(s, sep): every part
Split(s, sep) == SplitN(s, sep, Len(s) + 1)

HasPrefix(s, prefix) ==
    Len(s) >= Len(prefix) /\ SubSeq(s, 1, Len(prefix)) = prefix


---------------------------------------------------------------------------
(* Authorization header and token *)

\* The JSON payload of a token: the value of each claim the extractor reads.
\* nc, ue and r live under the "https://tigris" object, code under the
\* "https://tigris/n" object, sub at the top level.  Absent stands for a key
\* that is missing or whose value is not a string.
Absent == "<absent>"
NoClaims == [nc |-> Absent, code |-> Absent, ue |-> Absent, r |-> Absent, sub |-> Absent]

ClaimSets ==
    [nc : {Absent, "ns1"}, code : {Absent, "ns2"}, ue : {Absent, "", "e@x.com"},
     r : {Absent, "role1"}, sub : {Absent, "s"}]

\* How a payload is base64 encoded: "raw" decodes only without padding, "std"
\* only as padded standard base64, "both" when no padding is needed, "bad"
\* in neither (for example the URL-safe alphabet).
Encodings == {"raw", "std", "both", "bad"}

\* Symbols of a header string
Sp == [c |-> " "]
Dot == [c |-> "."]
Txt == [c |-> "x"]        \* a run of base64 characters that is not a JSON payload
Blob(enc, claims) == [c |-> "b64", enc |-> enc, claims |-> claims]

Blobs == {Blob(e, cl) : e \in Encodings, cl \in ClaimSets}

\* The strings the extractor is given: every string of up to MaxHeaderLen
\* symbols, and every payload in the positions of "<scheme> <h>.<payload>.<s>",
\* "<h>.<payload>.<s>" and "<scheme> <h>.<payload>"
Texts ==
    SeqsUpTo({Sp, Dot, Txt}, MaxHeaderLen)
    \cup {<<Txt, Sp, Txt, Dot, b, Dot, Txt>> : b \in Blobs}
    \cup {<<Txt, Dot, b, Dot, Txt>> : b \in Blobs}
    \cup {<<Txt, Sp, Txt, Dot, b>> : b \in Blobs}

\* base64.RawStdEncoding.DecodeString / base64.StdEncoding.DecodeString of a
\* segment: [ok, claims].  A space is outside both alphabets; a blob decodes
\* in the variants its encoding allows; anything but a lone blob decodes to
\* bytes that hold no claims.
Base64Decode(seg, variant) ==
    LET blobOk(b) == b.enc = variant \/ b.enc = "both"
        ok == \A i \in 1..Len(seg) :
                  /\ seg[i] # Sp
                  /\ seg[i] # Dot
                  /\ (seg[i].c = "b64" => blobOk(seg[i]))
    IN  IF ~ok THEN [ok |-> FALSE, claims |-> NoClaims]
        ELSE IF Len(seg) = 1 /\ seg[1].c = "b64"
             THEN [ok |-> TRUE, claims |-> seg[1].claims]
             ELSE [ok |-> TRUE, claims |-> NoClaims]

\* jsonparser.GetString(data, keys...): [val, err]; val is "" on error
GetString(claims, key) ==
    IF claims[key] = Absent
    THEN [val |-> "", err |-> TRUE]
    ELSE [val |-> claims[key], err |-> FALSE]

Quad(ns, human, sub, role) == [ns |-> ns, human |-> human, sub |-> sub, role |-> role]

\* getTokenFromHeader without the length check: a header with no space is
\* taken as the token
getTokenFromHeader_NoLengthCheck(header) ==
    LET splits == SplitN(header, Sp, 2)
    IN  [token |-> splits[Len(splits)], err |-> FALSE]

\* getTokenFromHeader: [token, err]
getTokenFromHeader(header) ==
    LET splits == SplitN(header, Sp, 2)
    IN  IF Len(splits) < 2
        THEN [token |-> <<>>, err |-> TRUE]
        ELSE [token |-> splits[2], err |-> FALSE]

\* getMetadataFromToken treating the subject as optional, like email and role
getMetadataFromToken_SubOptional(token) ==
    LET tokenParts == SplitN(token, Dot, 3)
    IN  IF Len(tokenParts) < 3
        THEN Quad(UnknownValue, FALSE, "", "")
        ELSE
          LET raw == Base64Decode(tokenParts[2], "raw")
              std == Base64Decode(tokenParts[2], "std")
          IN  IF ~raw.ok /\ ~std.ok
              THEN Quad(UnknownValue, FALSE, "", "")
              ELSE
                LET decodedToken == IF raw.ok THEN raw.claims ELSE std.claims
                    nc == GetString(decodedToken, NamespaceCode)
                    legacy == GetString(decodedToken, "code")
                    namespaceCode == IF nc.err THEN legacy.val ELSE nc.val
                    userEmail == GetString(decodedToken, UserEmail).val
                    role == GetString(decodedToken, Role).val
                    sub == GetString(decodedToken, Subject)
                IN  IF nc.err /\ legacy.err
                    THEN Quad(UnknownValue, FALSE, "", "")
                    ELSE Quad(namespaceCode, userEmail # "", sub.val, role)

getMetadataFromToken(token) ==
    LET tokenParts == SplitN(token, Dot, 3)
    IN  IF Len(tokenParts) < 3
        THEN Quad(UnknownValue, FALSE, "", "")
        ELSE
          LET raw == Base64Decode(tokenParts[2], "raw")
              std == Base64Decode(tokenParts[2], "std")
          IN  IF ~raw.ok /\ ~std.ok
              THEN Quad(UnknownValue, FALSE, "", "")
              ELSE
                LET decodedToken == IF raw.ok THEN raw.claims ELSE std.claims
                    nc == GetString(decodedToken, NamespaceCode)
                    legacy == GetString(decodedToken, "code")
                    namespaceCode == IF nc.err THEN legacy.val ELSE nc.val
                    userEmail == GetString(decodedToken, UserEmail).val
                    role == GetString(decodedToken, Role).val
                    sub == GetString(decodedToken, Subject)
                IN  IF nc.err /\ legacy.err
                    THEN Quad(UnknownValue, FALSE, "", "")
                    ELSE IF sub.err
                         THEN Quad(UnknownValue, FALSE, "", "")
                         ELSE Quad(namespaceCode, userEmail # "", sub.val, role)

\* GetMetadataFromHeader, with header = api.GetHeader(ctx, api.HeaderAuthorization)
GetMetadataFromHeader(header) ==
    IF ~isolation
    THEN Quad(DefaultNamespaceName, FALSE, "", "")
    ELSE LET t == getTokenFromHeader(header)
         IN  IF t.err
             THEN Quad(DefaultNamespaceName, FALSE, "", "")
             ELSE getMetadataFromToken(t.token)

NoQuad == Quad("", FALSE, "", "")

---------------------------------------------------------------------------
(* Method classifier *)

\* isRead without the DescribeDatabase case
isRead_MissingDescribeDatabase(n) ==
    IF HasPrefix(n, ObservabilityMethodPrefix) THEN TRUE
    ELSE IF HasPrefix(n, ManagementMethodPrefix) THEN TRUE
    ELSE CASE n = ReadMethodName \/ n = SearchMethodName -> TRUE
           [] n = ListCollectionsMethodName \/ n = ListProjectsMethodName -> TRUE
           [] n = DescribeCollectionMethodName -> TRUE
           [] OTHER -> FALSE

isRead(n) ==
    IF HasPrefix(n, ObservabilityMethodPrefix) THEN TRUE
    ELSE IF HasPrefix(n, ManagementMethodPrefix) THEN TRUE
    ELSE CASE n = ReadMethodName \/ n = SearchMethodName -> TRUE
           [] n = ListCollectionsMethodName \/ n = ListProjectsMethodName -> TRUE
           [] n = DescribeCollectionMethodName \/ n = DescribeDatabaseMethodName -> TRUE
           [] OTHER -> FALSE

isWrite(n) == ~isRead(n)

\* Symbols of a method name
NameSymbols ==
    {"/", TigrisService, ObservabilityMethodPrefix[2], ManagementMethodPrefix[2],
     "Read", "Insert"}

\* The names the classifier is given: every string of up to MaxNameLen symbols,
\* every "/<service>/<method>" and the same with a further path segment
MethodNames ==
    SeqsUpTo(NameSymbols, MaxNameLen)
    \cup {<<"/", s, "/", m>> :
             s \in {TigrisService, ObservabilityMethodPrefix[2], ManagementMethodPrefix[2]},
             m \in {"Read", "Search", "ListCollections", "ListProjects",
                    "DescribeCollection", "DescribeDatabase", "Insert", "Replace",
                    "CreateCollection", "QuerySpans"}}
    \cup {<<"/", s, "/", m, "/", "x">> :
             s \in {TigrisService, ObservabilityMethodPrefix[2], ManagementMethodPrefix[2]},
             m \in {"Read", "Insert"}}

NoVerdict == [read |-> FALSE, write |-> FALSE]

---------------------------------------------------------------------------
(* Request metadata *)

NoMethodInfo == [Name |-> <<>>, IsClientStream |-> FALSE, IsServerStream |-> FALSE]

\* the zero value of the Metadata struct
ZeroMetadata ==
    [accessToken |-> "nil", serviceName |-> <<>>, methodInfo |-> NoMethodInfo,
     namespace |-> "", namespaceName |-> "", IsHuman |-> FALSE,
     project |-> "", branch |-> "", collection |-> "", Sub |-> "", Role |-> ""]

\* A request payload: nil, a message with neither capability ("other"), an
\* api.RequestWithProject or an api.RequestWithProjectAndCollection
NilReq == [kind |-> "nil", project |-> "", branch |-> "", collection |-> ""]
OtherReq == [kind |-> "other", project |-> "", branch |-> "", collection |-> ""]
Projects == {"", "p1"}
Branches == {"", "b1", UnknownValue}
Collections == {"", "c1"}
Requests ==
    {NilReq, OtherReq}
    \cup [kind : {"project"}, project : Projects, branch : Branches, collection : {""}]
    \cup [kind : {"projectAndCollection"}, project : Projects, branch : Branches,
          collection : Collections]

Triple(project, branch, coll) == [project |-> project, branch |-> branch, coll |-> coll]

\* GetProjectAndBranchAndColl without the "main" default: an empty payload
\* branch leaves the unknown placeholder
GetProjectAndBranchAndColl_NoMainDefault(r) ==
    IF r.kind # "nil" /\ r.kind = "projectAndCollection"
    THEN Triple(r.project, IF r.branch # "" THEN r.branch ELSE UnknownValue, r.collection)
    ELSE IF r.kind # "nil" /\ r.kind = "project"
         THEN Triple(r.project, IF r.branch # "" THEN r.branch ELSE UnknownValue, "")
         ELSE Triple("", UnknownValue, "")

\* GetProjectAndBranchAndColl asserting api.RequestWithProject first: a payload
\* with project and collection satisfies it too, and its collection is lost
GetProjectAndBranchAndColl_ProjectFirst(r) ==
    IF r.kind # "nil" /\ r.kind \in {"project", "projectAndCollection"}
    THEN Triple(r.project, IF r.branch # "" THEN r.branch ELSE "main", "")
    ELSE Triple("", UnknownValue, "")

GetProjectAndBranchAndColl(r) ==
    IF r.kind # "nil" /\ r.kind = "projectAndCollection"
    THEN Triple(r.project, IF r.branch # "" THEN r.branch ELSE "main", r.collection)
    ELSE IF r.kind # "nil" /\ r.kind = "project"
         THEN Triple(r.project, IF r.branch # "" THEN r.branch ELSE "main", "")
         ELSE Triple("", UnknownValue, "")

\* tenant.GetNamespace().Metadata().Name of the tenant the directory holds
\* under a namespace identifier
TenantName(namespace) ==
    CASE namespace = "ns1" -> "Tenant One"
      [] namespace = "ns2" -> "Tenant Two"
      [] namespace = DefaultNamespaceName -> "Default Tenant"
      [] OTHER -> "Tenant Of " \o namespace

\* What tenantGetter.GetTenant returns: an error, (nil, nil) or a tenant
Lookups == {"err", "nil", "ok"}

\* SetNamespace that returns on the unknown sentinel without assigning the
\* display name
SetNamespace_StaleNameOnUnknown(m, namespace, d) ==
    LET m1 == [m EXCEPT !.namespace = namespace]
    IN  IF ~isolation /\ ~authEnabled
        THEN [md |-> [m1 EXCEPT !.namespaceName = DefaultNamespaceName],
              panicked |-> FALSE, calls |-> 0, outcome |-> "none"]
        ELSE IF namespace = UnknownValue
        THEN [md |-> m1, panicked |-> FALSE, calls |-> 0, outcome |-> "none"]
        ELSE IF tenantGetter = "nil"
        THEN [md |-> m1, panicked |-> TRUE, calls |-> 0, outcome |-> "panic"]
        ELSE IF d = "ok"
        THEN [md |-> [m1 EXCEPT !.namespaceName = TenantName(namespace)],
              panicked |-> FALSE, calls |-> 1, outcome |-> d]
        ELSE [md |-> [m1 EXCEPT !.namespaceName = UnknownValue],
              panicked |-> FALSE, calls |-> 1, outcome |-> d]

\* SetNamespace that asks the directory before it looks at the identifier
SetNamespace_LookupBeforeSentinel(m, namespace, d) ==
    LET m1 == [m EXCEPT !.namespace = namespace]
    IN  IF ~isolation /\ ~authEnabled
        THEN [md |-> [m1 EXCEPT !.namespaceName = DefaultNamespaceName],
              panicked |-> FALSE, calls |-> 0, outcome |-> "none"]
        ELSE IF tenantGetter = "nil"
        THEN [md |-> m1, panicked |-> TRUE, calls |-> 0, outcome |-> "panic"]
        ELSE IF namespace = UnknownValue \/ d # "ok"
        THEN [md |-> [m1 EXCEPT !.namespaceName = UnknownValue],
              panicked |-> FALSE, calls |-> 1, outcome |-> d]
        ELSE [md |-> [m1 EXCEPT !.namespaceName = TenantName(namespace)],
              panicked |-> FALSE, calls |-> 1, outcome |-> d]

\* SetNamespace without the nil check: a lookup that returns no tenant and no
\* error panics on tenant.GetNamespace()
SetNamespace_NoNilCheck(m, namespace, d) ==
    LET m1 == [m EXCEPT !.namespace = namespace]
    IN  IF ~isolation /\ ~authEnabled
        THEN [md |-> [m1 EXCEPT !.namespaceName = DefaultNamespaceName],
              panicked |-> FALSE, calls |-> 0, outcome |-> "none"]
        ELSE IF namespace = UnknownValue
        THEN [md |-> [m1 EXCEPT !.namespaceName = UnknownValue],
              panicked |-> FALSE, calls |-> 0, outcome |-> "none"]
        ELSE IF tenantGetter = "nil"
        THEN [md |-> m1, panicked |-> TRUE, calls |-> 0, outcome |-> "panic"]
        ELSE IF d = "err"
        THEN [md |-> [m1 EXCEPT !.namespaceName = UnknownValue],
              panicked |-> FALSE, calls |-> 1, outcome |-> d]
        ELSE IF d = "nil"
        THEN [md |-> m1, panicked |-> TRUE, calls |-> 1, outcome |-> d]
        ELSE [md |-> [m1 EXCEPT !.namespaceName = TenantName(namespace)],
              panicked |-> FALSE, calls |-> 1, outcome |-> d]

\* Metadata.SetNamespace on m, the directory answering d if it is asked:
\* the metadata after the call, whether the call panicked (a method call on
\* the nil tenantGetter), whether GetTenant ran and what it did
SetNamespace(m, namespace, d) ==
    LET m1 == [m EXCEPT !.namespace = namespace]
    IN  IF ~isolation /\ ~authEnabled
        THEN [md |-> [m1 EXCEPT !.namespaceName = DefaultNamespaceName],
              panicked |-> FALSE, calls |-> 0, outcome |-> "none"]
        ELSE IF namespace = UnknownValue
        THEN [md |-> [m1 EXCEPT !.namespaceName = UnknownValue],
              panicked |-> FALSE, calls |-> 0, outcome |-> "none"]
        ELSE IF tenantGetter = "nil"
        THEN [md |-> m1, panicked |-> TRUE, calls |-> 0, outcome |-> "panic"]
        ELSE IF d = "err"
        THEN [md |-> [m1 EXCEPT !.namespaceName = UnknownValue],
              panicked |-> FALSE, calls |-> 1, outcome |-> d]
        ELSE IF d = "nil"
        THEN [md |-> [m1 EXCEPT !.namespaceName = UnknownValue],
              panicked |-> FALSE, calls |-> 1, outcome |-> d]
        ELSE [md |-> [m1 EXCEPT !.namespaceName = TenantName(namespace)],
              panicked |-> FALSE, calls |-> 1, outcome |-> d]

\* Authorization headers of the calls: none, a user's token, a machine's token
\* in the legacy layout, a token without subject
Headers ==
    {<<>>,
     <<Txt, Sp, Txt, Dot,
       Blob("raw", [nc |-> "ns1", code |-> Absent, ue |-> "e@x.com", r |-> "role1", sub |-> "s"]),
       Dot, Txt>>,
     <<Txt, Sp, Txt, Dot,
       Blob("std", [nc |-> Absent, code |-> "ns2", ue |-> Absent, r |-> Absent, sub |-> "s"]),
       Dot, Txt>>,
     <<Txt, Sp, Txt, Dot,
       Blob("raw", [nc |-> "ns1", code |-> Absent, ue |-> "e@x.com", r |-> "role1", sub |-> Absent]),
       Dot, Txt>>}

FullMethods == {<<"Read">>, <<"/", TigrisService>>, ReadMethodName}
MethodTypes == {"unary", "stream", "other"}

\* The tail of a constructor: md.SetNamespace(ctx, ns) on the struct literal m,
\* then return md.  A panic unwinds the constructor and nothing is returned.
Construct(c, m, ns, d) ==
    LET r == SetNamespace(m, ns, d)
    IN  /\ pc = "idle"
        /\ op' = c
        /\ argNs' = ns
        /\ outcome' = r.outcome
        /\ getTenantCalls' = getTenantCalls + r.calls
        /\ nset' = 0
        /\ IF r.panicked
           THEN pc' = "panicked" /\ UNCHANGED <<md, ctor>>
           ELSE pc' = "ready" /\ md' = r.md /\ ctor' = c
        /\ UNCHANGED <<isolation, authEnabled, tenantGetter, extractVars, classifyVars>>

NewRequestMetadata(header, d) ==
    LET q == GetMetadataFromHeader(header)
        m == [ZeroMetadata EXCEPT !.IsHuman = q.human, !.Sub = q.sub, !.Role = q.role]
    IN  pc = "idle" /\ Construct("NewRequestMetadata", m, q.ns, d) /\ UNCHANGED req

EndpointMetadata(header, serviceName, methodInfo, db, branch, coll) ==
    LET q == GetMetadataFromHeader(header)
    IN  [ZeroMetadata EXCEPT !.serviceName = serviceName, !.methodInfo = methodInfo,
                             !.IsHuman = q.human, !.Sub = q.sub, !.Role = q.role,
                             !.project = db, !.branch = branch, !.collection = coll]

NewRequestEndpointMetadata(header, serviceName, methodInfo, db, branch, coll, d) ==
    /\ pc = "idle"
    /\ Construct("NewRequestEndpointMetadata",
                 EndpointMetadata(header, serviceName, methodInfo, db, branch, coll),
                 GetMetadataFromHeader(header).ns, d)
    /\ UNCHANGED req

\* methodList[1] and methodList[2] are read unchecked: a full method name with
\* fewer than two "/" panics with an index out of range
GetGrpcEndPointMetadataFromFullMethod(header, fullMethod, methodType, r, d) ==
    LET t == GetProjectAndBranchAndColl(r)
        methodList == Split(fullMethod, "/")
    IN  /\ pc = "idle"
        /\ req' = r
        /\ IF Len(methodList) < 3
           THEN /\ pc' = "panicked"
                /\ op' = "GetGrpcEndPointMetadataFromFullMethod"
                /\ UNCHANGED <<isolation, authEnabled, tenantGetter, ctor, md, argNs,
                               outcome, getTenantCalls, nset, extractVars, classifyVars>>
           ELSE LET svcName == methodList[2]
                    methodName == methodList[3]
                    methodInfo ==
                        IF methodType = "unary"
                        THEN [Name |-> methodName, IsClientStream |-> FALSE,
                              IsServerStream |-> FALSE]
                        ELSE IF methodType = "stream"
                        THEN [Name |-> methodName, IsClientStream |-> FALSE,
                              IsServerStream |-> TRUE]
                        ELSE NoMethodInfo
                IN  Construct("GetGrpcEndPointMetadataFromFullMethod",
                              EndpointMetadata(header, svcName, methodInfo,
                                               t.project, t.branch, t.coll),
                              GetMetadataFromHeader(header).ns, d)

\* Init(tg): the server installs its tenant manager
InitTenantGetter ==
    /\ tenantGetter' = "set"
    /\ UNCHANGED <<isolation, authEnabled, pc, ctor, op, md, req, argNs, outcome,
                   getTenantCalls, nset, extractVars, classifyVars>>

\* A setter that assigns fields of the Metadata and cannot fail
Assign(o, m) ==
    /\ pc = "ready"
    /\ nset < MaxSetterCalls
    /\ nset' = nset + 1
    /\ op' = o
    /\ md' = m
    /\ UNCHANGED <<isolation, authEnabled, tenantGetter, pc, ctor, req, argNs, outcome,
                   getTenantCalls, extractVars, classifyVars>>

SetProject(project) == Assign("SetProject", [md EXCEPT !.project = project])

\* SetBranch that also clears the collection
SetBranch_ClearsCollection(branch) ==
    Assign("SetBranch", [md EXCEPT !.branch = branch, !.collection = ""])

SetBranch(branch) == Assign("SetBranch", [md EXCEPT !.branch = branch])

SetCollection(collection) == Assign("SetCollection", [md EXCEPT !.collection = collection])

SetAccessToken(token) == Assign("SetAccessToken", [md EXCEPT !.accessToken = token])

SetNamespaceCall(namespace, d) ==
    LET r == SetNamespace(md, namespace, d)
    IN  /\ pc = "ready"
        /\ nset < MaxSetterCalls
        /\ nset' = nset + 1
        /\ op' = "SetNamespace"
        /\ argNs' = namespace
        /\ md' = r.md
        /\ pc' = IF r.panicked THEN "panicked" ELSE "ready"
        /\ outcome' = r.outcome
        /\ getTenantCalls' = getTenantCalls + r.calls
        /\ UNCHANGED <<isolation, authEnabled, tenantGetter, ctor, req,
                       extractVars, classifyVars>>

---------------------------------------------------------------------------
(* Specifications *)

ExtractIdle == text = <<>> /\ fn = "none" /\ out = NoQuad
ClassifyIdle == name = <<>> /\ verdict = NoVerdict
LifecycleIdle ==
    /\ tenantGetter = "nil"
    /\ pc = "idle"
    /\ ctor = "none"
    /\ op = "none"
    /\ md = ZeroMetadata
    /\ req = NilReq
    /\ argNs = ""
    /\ outcome = "none"
    /\ getTenantCalls = 0
    /\ nset = 0

\* A call arrives at a server whose configuration is loaded
Init ==
    /\ isolation \in BOOLEAN
    /\ authEnabled \in BOOLEAN
    /\ LifecycleIdle
    /\ ExtractIdle
    /\ ClassifyIdle

DoNewRequestMetadata ==
    /\ pc = "idle"
    /\ \E h \in Headers, d \in Lookups : NewRequestMetadata(h, d)

DoNewRequestEndpointMetadata ==
    /\ pc = "idle"
    /\ \E h \in Headers, db \in Projects, b \in Branches, c \in Collections,
          d \in Lookups :
           NewRequestEndpointMetadata(h, <<TigrisService>>,
               [Name |-> <<"Read">>, IsClientStream |-> FALSE, IsServerStream |-> FALSE],
               db, b, c, d)

DoGetGrpcEndPointMetadataFromFullMethod ==
    /\ pc = "idle"
    /\ \E h \in Headers, f \in FullMethods, t \in MethodTypes, r \in Requests,
          d \in Lookups :
           GetGrpcEndPointMetadataFromFullMethod(h, f, t, r, d)

DoSetProject == \E p \in {"p2"} : SetProject(p)
DoSetBranch == \E b \in {"b2", UnknownValue} : SetBranch(b)
DoSetCollection == \E c \in {"c2"} : SetCollection(c)
DoSetAccessToken == \E t \in {"token1"} : SetAccessToken(t)
DoSetNamespace == \E n \in {UnknownValue, "ns1"}, d \in Lookups : SetNamespaceCall(n, d)

Next ==
    \/ InitTenantGetter
    \/ DoNewRequestMetadata
    \/ DoNewRequestEndpointMetadata
    \/ DoGetGrpcEndPointMetadataFromFullMethod
    \/ DoSetProject
    \/ DoSetBranch
    \/ DoSetCollection
    \/ DoSetAccessToken
    \/ DoSetNamespace

Spec == Init /\ [][Next]_vars

\* The claim extractor applied to one string
ExtractInit ==
    /\ isolation \in BOOLEAN
    /\ authEnabled \in BOOLEAN
    /\ LifecycleIdle
    /\ text \in Texts
    /\ fn = "none"
    /\ out = NoQuad
    /\ ClassifyIdle

CallGetMetadataFromHeader ==
    /\ fn = "none"
    /\ fn' = "GetMetadataFromHeader"
    /\ out' = GetMetadataFromHeader(text)
    /\ UNCHANGED <<lifecycleVars, text, classifyVars>>

CallGetMetadataFromToken ==
    /\ fn = "none"
    /\ fn' = "getMetadataFromToken"
    /\ out' = getMetadataFromToken(text)
    /\ UNCHANGED <<lifecycleVars, text, classifyVars>>

ExtractNext == CallGetMetadataFromHeader \/ CallGetMetadataFromToken

ExtractSpec == ExtractInit /\ [][ExtractNext]_vars

\* The method classifier applied to one method name
ClassifyInit ==
    /\ isolation = FALSE
    /\ authEnabled = FALSE
    /\ LifecycleIdle
    /\ ExtractIdle
    /\ name \in MethodNames
    /\ verdict = NoVerdict

Classify ==
    /\ verdict = NoVerdict
    /\ verdict' = [read |-> isRead(name), write |-> isWrite(name)]
    /\ UNCHANGED <<lifecycleVars, extractVars, name>>

ClassifyNext == Classify

ClassifySpec == ClassifyInit /\ [][ClassifyNext]_vars

---------------------------------------------------------------------------
(* Properties *)

Constructors ==
    {"NewRequestMetadata", "NewRequestEndpointMetadata",
     "GetGrpcEndPointMetadataFromFullMethod"}

Defaults(ns) == Quad(ns, FALSE, "", "")

\* C1: once a Metadata has been constructed, and after every setter call, the
\* namespace display name is the value the Namespace Resolver yields for the
\* current identifier under the configuration flags: the default namespace
\* name when isolation and authentication are both off, the unknown sentinel
\* for the unknown identifier, the tenant's display name when the directory
\* lookup of that identifier succeeded, and the unknown sentinel otherwise.
C1_NamespaceNameConsistent ==
    ctor # "none" =>
        md.namespaceName =
            IF ~isolation /\ ~authEnabled THEN DefaultNamespaceName
            ELSE IF md.namespace = UnknownValue THEN UnknownValue
            ELSE IF outcome = "ok" THEN TenantName(md.namespace)
            ELSE UnknownValue

\* C1 witness: a later SetNamespace call replaced the identifier set at
\* construction and the display name is the one of the new tenant.
C1_Witness ==
    /\ op = "SetNamespace"
    /\ pc = "ready"
    /\ md.Sub = ""
    /\ md.namespace = "ns1"
    /\ md.namespaceName = "Tenant One"

\* C2: a step invokes tenantGetter.GetTenant at most once, and only in a
\* SetNamespace whose identifier is not the unknown sentinel while namespace
\* isolation or authentication is enabled.
C2_DirectoryOnlyWhenNeeded ==
    [][/\ getTenantCalls' <= getTenantCalls + 1
       /\ getTenantCalls' # getTenantCalls =>
              /\ isolation \/ authEnabled
              /\ argNs' # UnknownValue
              /\ op' \in Constructors \cup {"SetNamespace"}]_vars

\* C2 witness: the directory was consulted by the constructor and again by a
\* later SetNamespace, and a further SetNamespace of the unknown sentinel did
\* not consult it.
C2_Witness ==
    /\ op = "SetNamespace"
    /\ argNs = UnknownValue
    /\ nset = 2
    /\ getTenantCalls = 2

\* C3: when the directory lookup of SetNamespace returns an error or no
\* tenant, the display name is the unknown sentinel, the identifier is the
\* requested one and the call completes; when it returns a tenant the display
\* name is that tenant's display name.
C3_LookupFailureDegrades ==
    /\ outcome \in {"err", "nil"} =>
           /\ pc = "ready"
           /\ ctor # "none"
           /\ md.namespace = argNs
           /\ md.namespaceName = UnknownValue
    /\ outcome = "ok" =>
           /\ pc = "ready"
           /\ ctor # "none"
           /\ md.namespace = argNs
           /\ md.namespaceName = TenantName(argNs)

\* C3 witness: a constructor whose lookup returned no tenant has returned the
\* Metadata.
C3_Witness ==
    /\ op \in Constructors
    /\ outcome = "nil"
    /\ ctor = op
    /\ md.namespace = "ns1"

NoSpace(s) == \A i \in 1..Len(s) : s[i] # Sp

\* C4 (as claimed): with namespace isolation enabled, a header without a space
\* makes GetMetadataFromHeader return the unknown sentinel as namespace, with
\* is-human false and empty subject and role.
C4_MalformedHeaderYieldsUnknown ==
    (fn = "GetMetadataFromHeader" /\ isolation /\ NoSpace(text)) =>
        out = Defaults(UnknownValue)

\* C4 (amended): with namespace isolation enabled, a header without a space
\* makes GetMetadataFromHeader return the default namespace name as
\* namespace, with is-human false and empty subject and role.
C4_MalformedHeaderYieldsDefaultNamespace ==
    (fn = "GetMetadataFromHeader" /\ isolation /\ NoSpace(text)) =>
        out = Defaults(DefaultNamespaceName)

\* C4 witness: a header that is a well-formed token with no scheme in front.
C4_Witness ==
    /\ fn = "GetMetadataFromHeader"
    /\ isolation
    /\ NoSpace(text)
    /\ Len(text) = 5
    /\ text[3].c = "b64"
    /\ text[3].claims.sub = "s"
    /\ text[3].claims.nc = "ns1"
    /\ text[3].enc = "raw"
    /\ out.ns = DefaultNamespaceName

\* the token has three segments and the payload its middle segment holds has
\* no subject
ThreeSegmentsNoSub(t) ==
    LET i == Index(t, Dot)
    IN  /\ i > 0
        /\ Index(SubSeq(t, i + 1, Len(t)), Dot) > 0
        /\ LET seg == SubSeq(t, i + 1, i + Index(SubSeq(t, i + 1, Len(t)), Dot) - 1)
           IN  ~(Len(seg) = 1 /\ seg[1].c = "b64" /\ seg[1].claims.sub # Absent)

\* C5: getMetadataFromToken returns the unknown sentinel, is-human false and
\* empty subject and role for every token of three segments whose payload has
\* no top-level sub claim, whatever its other claims are.
C5_MissingSubYieldsDefaults ==
    (fn = "getMetadataFromToken" /\ ThreeSegmentsNoSub(text)) =>
        out = Defaults(UnknownValue)

\* C5 witness: a decodable payload with namespace code, user email and role
\* but no subject.
C5_Witness ==
    /\ fn = "getMetadataFromToken"
    /\ ThreeSegmentsNoSub(text)
    /\ Len(text) = 5
    /\ text[3].c = "b64"
    /\ text[3].enc = "both"
    /\ text[3].claims.nc = "ns1"
    /\ text[3].claims.ue = "e@x.com"
    /\ text[3].claims.r = "role1"
    /\ out = Defaults(UnknownValue)

\* C6 (as claimed): every constructor completes and returns a Metadata.
C6_ConstructionNeverCrashes ==
    op \in Constructors => pc = "ready" /\ ctor = op

StartsWith(s, prefix) ==
    /\ Len(prefix) <= Len(s)
    /\ \A i \in 1..Len(prefix) : s[i] = prefix[i]

\* C7: exactly one of isRead and isWrite holds of a method name, and isRead
\* holds exactly of the names that start with the observability or the
\* management prefix or are one of Read, Search, ListCollections,
\* ListProjects, DescribeCollection and DescribeDatabase.
C7_ReadWritePartition ==
    verdict # NoVerdict =>
        /\ verdict.read # verdict.write
        /\ verdict.read <=>
               \/ StartsWith(name, ObservabilityMethodPrefix)
               \/ StartsWith(name, ManagementMethodPrefix)
               \/ name \in {ReadMethodName, SearchMethodName, ListCollectionsMethodName,
                            ListProjectsMethodName, DescribeCollectionMethodName,
                            DescribeDatabaseMethodName}

\* C7 witness: DescribeDatabase has been classified as a read.
C7_Witness ==
    /\ name = DescribeDatabaseMethodName
    /\ verdict.read
    /\ ~verdict.write

Populated == md.project # "" \/ md.collection # ""

\* C8 (as claimed): in a Metadata constructed from a request payload, a
\* populated project or collection never coexists with the unknown
\* placeholder branch, whatever setters have been called since.
C8_RoutingTripleCoherent ==
    ctor = "GetGrpcEndPointMetadataFromFullMethod" =>
        ~(Populated /\ md.branch = UnknownValue)

\* C8 (amended): right after construction from a request payload, before any
\* setter call, the branch is the unknown placeholder only if the payload
\* exposes no project (project and collection are then empty) or the
\* payload's own branch is the placeholder string.
C8_CoherentAtConstruction ==
    (op = "GetGrpcEndPointMetadataFromFullMethod" /\ pc = "ready"
        /\ md.branch = UnknownValue) =>
        \/ req.kind \in {"nil", "other"} /\ ~Populated
        \/ req.kind \in {"project", "projectAndCollection"} /\ req.branch = UnknownValue

\* C8 witness: a payload without project gave the unknown placeholder branch.
C8_Witness ==
    /\ op = "GetGrpcEndPointMetadataFromFullMethod"
    /\ pc = "ready"
    /\ req.kind = "other"
    /\ md.branch = UnknownValue
    /\ ~Populated

\* C9: right after construction from a request payload, project and
\* collection are the payload's and branch is the payload's branch, or "main"
\* if that is empty, for a payload with project and collection; the same with
\* an empty collection for a payload with project only; and project and
\* collection are empty and branch is the unknown placeholder for a nil
\* payload or one with neither.
C9_PayloadRouting ==
    (op = "GetGrpcEndPointMetadataFromFullMethod" /\ pc = "ready") =>
        /\ req.kind = "projectAndCollection" =>
               /\ md.project = req.project
               /\ md.collection = req.collection
               /\ md.branch = IF req.branch = "" THEN "main" ELSE req.branch
        /\ req.kind = "project" =>
               /\ md.project = req.project
               /\ md.collection = ""
               /\ md.branch = IF req.branch = "" THEN "main" ELSE req.branch
        /\ req.kind \in {"nil", "other"} =>
               /\ md.project = ""
               /\ md.collection = ""
               /\ md.branch = UnknownValue

\* C9 witness: a payload with project and collection and no branch was routed
\* to "main".
C9_Witness ==
    /\ op = "GetGrpcEndPointMetadataFromFullMethod"
    /\ pc = "ready"
    /\ req.kind = "projectAndCollection"
    /\ req.branch = ""
    /\ md.project = "p1"
    /\ md.collection = "c1"
    /\ md.branch = "main"

\* C10: a setter call leaves IsHuman, Sub, Role, the service name and the
\* method descriptor as they were, and changes no field but its own.
C10_IdentityImmutable ==
    [][pc = "ready" =>
          /\ md'.IsHuman = md.IsHuman
          /\ md'.Sub = md.Sub
          /\ md'.Role = md.Role
          /\ md'.serviceName = md.serviceName
          /\ md'.methodInfo = md.methodInfo
          /\ op' = "SetProject" => [md' EXCEPT !.project = md.project] = md
          /\ op' = "SetBranch" => [md' EXCEPT !.branch = md.branch] = md
          /\ op' = "SetCollection" => [md' EXCEPT !.collection = md.collection] = md
          /\ op' = "SetAccessToken" => [md' EXCEPT !.accessToken = md.accessToken] = md
          /\ op' = "SetNamespace" =>
                 [md' EXCEPT !.namespace = md.namespace,
                             !.namespaceName = md.namespaceName] = md]_vars

\* C10 witness: a user's Metadata after two setter calls, the last one
\* SetNamespace.
C10_Witness ==
    /\ op = "SetNamespace"
    /\ nset = 2
    /\ md.IsHuman
    /\ md.Sub = "s"
    /\ md.Role = "role1"
    /\ md.accessToken = "token1"

============================================================================
